---- MODULE Spec2Model ----
(***************************************************************************)
(* A model of drawille (src/src/drawille.rs): the sparse Braille Canvas    *)
(* and the Turtle that draws on a Canvas it owns.                          *)
(*                                                                         *)
(* Two specifications share the variables:                                 *)
(*   Spec       one object, made by Canvas::new or by Turtle::new, and     *)
(*              then driven by up to MaxOps calls of its public methods;   *)
(*   SpecLine   the pure function Canvas::line_vec on bounded endpoints.   *)
(*                                                                         *)
(* uint values are kept modulo UintMod, so that the negative direction of  *)
(* line_vec (-1 stored in a uint) wraps as it does in the program.  f32    *)
(* values are kept as integers counting 1/Scale units; the model uses only *)
(* headings that are multiples of 90 degrees.                              *)
(***************************************************************************)
EXTENDS Integers, Sequences, FiniteSets, TLC

VARIABLES obj, made,                 \* the object driven and the call that made it
          chars, width, height,      \* Canvas (for a Turtle: its cvs field)
          x, y, brush, rotation,     \* Turtle
          last, ret, nops            \* last call, its return value, calls made

vars == <<obj, made, chars, width, height, x, y, brush, rotation, last, ret, nops>>
canvas == <<chars, width, height>>
turtle == <<x, y, brush, rotation>>

----------------------------------------------------------------------------
(* Bounds of the model *)

\* calls made on one object
MaxOps == 3
\* endpoints of line_vec under SpecLine range over 0..LineMax on each axis
LineMax == 4
\* uint is kept modulo UintMod
UintMod == 65536
\* an f32 is kept as a count of 1/Scale units
Scale == 2

\* pixel arguments of set/unset/toggle/get under Spec
Xs == {0, 1, 2}
Ys == {0, 3, 4}
\* endpoints of line and line_vec under Spec
LineXs == {0, 1}
LineYs == {0, 3}
\* arguments of Canvas::new
NewArgs == {<<1, 1>>, <<2, 4>>, <<3, 1>>}
\* arguments of Turtle::new, of move, forward/back, right/left, width/height
StartArgs == {<<0, 0>>, <<-1, 3>>}
MoveXs == {-Scale, -1, 1, 3}
MoveYs == {-1, 0, 3}
Dists == {1, Scale, 4 * Scale}
Angles == {90}
Dims == {2, 3}

----------------------------------------------------------------------------
(* Integer helpers: Rust's int and uint *)

Max(a, b) == IF a >= b THEN a ELSE b
Min(a, b) == IF a <= b THEN a ELSE b

\* wrapping uint arithmetic
UAdd(a, b) == (a + b) % UintMod
UMul(a, b) == (a * b) % UintMod
\* the literal -1 typed uint
UNeg1 == UintMod - 1

RECURSIVE BitAnd(_, _)
BitAnd(a, b) ==
    IF a = 0 \/ b = 0 THEN 0
    ELSE (a % 2) * (b % 2) + 2 * BitAnd(a \div 2, b \div 2)
BitOr(a, b) == a + b - BitAnd(a, b)
BitXor(a, b) == a + b - 2 * BitAnd(a, b)
\* a & !b, for a >= 0 and b >= 0
BitAndNot(a, b) == a - BitAnd(a, b)

----------------------------------------------------------------------------
(* Canvas *)

PIXEL_MAP == << <<1, 8>>, <<2, 16>>, <<4, 32>>, <<64, 128>> >>

\* PIXEL_MAP[y % 4][x % 2]
Dot(px, py) == PIXEL_MAP[(py % 4) + 1][(px % 2) + 1]

NoCells == [k \in {} |-> 0]

\* *chars.find_or_insert(key, 0) = f(old value)
FindOrInsert(c, key, new) ==
    [k \in (DOMAIN c) \cup {key} |-> IF k = key THEN new ELSE c[k]]
Find0(c, key) == IF key \in DOMAIN c THEN c[key] ELSE 0

\* the dot added instead of ORed
SetOrMut(c, px, py) ==
    LET key == <<px \div 2, py \div 4>>
    IN FindOrInsert(c, key, Find0(c, key) + Dot(px, py))
SetOr(c, px, py) ==
    LET key == <<px \div 2, py \div 4>>
    IN FindOrInsert(c, key, BitOr(Find0(c, key), Dot(px, py)))

UnsetAnd(c, px, py) ==
    LET key == <<px \div 2, py \div 4>>
    IN FindOrInsert(c, key, BitAndNot(Find0(c, key), Dot(px, py)))

ToggleXor(c, px, py) ==
    LET key == <<px \div 2, py \div 4>>
    IN FindOrInsert(c, key, BitXor(Find0(c, key), Dot(px, py)))

\* get: (col, row) = (x / 2, y / 4), then the key looked up is (row, col)
GetBit(c, px, py) ==
    LET dot_index == Dot(px, py)
        col == px \div 2
        row == py \div 4
        key == <<row, col>>
    IN IF key \in DOMAIN c THEN BitAnd(c[key], dot_index) # 0 ELSE FALSE

----------------------------------------------------------------------------
(* rows and frame: a String is a sequence of scalar values *)

SPACE == 32
LF == 10
BRAILLE == 10240   \* 0x2800

NoChar == -1
\* std::char::from_u32(v as u32): None unless v is a Unicode scalar value
\* (a negative int casts to a u32 of 2^31 or more, which is none)
FromU32(v) ==
    IF (0 <= v /\ v <= 55295) \/ (57344 <= v /\ v <= 1114111) THEN v ELSE NoChar

SetMax(S) == CHOOSE m \in S : \A n \in S : n <= m
\* keys().map(..).max().unwrap_or(0)
MaxOr0(S) == IF S = {} THEN 0 ELSE SetMax(S)

RowsMaxrow(c, w) == Max(w, MaxOr0({k[1] : k \in DOMAIN c}))
\* the declared height ignored
RowsMaxcolMut(c, h) == MaxOr0({k[2] : k \in DOMAIN c})
RowsMaxcol(c, h) == Max(h, MaxOr0({k[2] : k \in DOMAIN c}))

RowChar(c, cx, cy) ==
    LET char == Find0(c, <<cx, cy>>)
    IN IF char = 0 THEN SPACE ELSE FromU32(BRAILLE + char)

RowsOf(c, w, h) ==
    LET maxrow == RowsMaxrow(c, w)
        maxcol == RowsMaxcol(c, h)
    IN [cy \in 1..(maxcol + 1) |-> [cx \in 1..(maxrow + 1) |-> RowChar(c, cx - 1, cy - 1)]]

\* unwrap() of a None panics
RowsPanics(c, w, h) ==
    \E k \in DOMAIN c : c[k] # 0 /\ FromU32(BRAILLE + c[k]) = NoChar

RECURSIVE Connect(_, _)
Connect(rs, sep) ==
    IF Len(rs) = 0 THEN <<>>
    ELSE IF Len(rs) = 1 THEN rs[1]
    ELSE rs[1] \o <<sep>> \o Connect(Tail(rs), sep)

FrameOf(c, w, h) == Connect(RowsOf(c, w, h), LF)

----------------------------------------------------------------------------
(* line_vec and line *)

\* the direction of travel ignored
LinePointMut(x1, y1, x2, y2, i) ==
    LET xdiff == Max(x1, x2) - Min(x1, x2)
        ydiff == Max(y1, y2) - Min(y1, y2)
        r == Max(xdiff, ydiff)
        yy == IF ydiff # 0 THEN UAdd(y1, UMul(i, ydiff) \div r) ELSE y1
        xx == IF xdiff # 0 THEN UAdd(x1, UMul(i, xdiff) \div r) ELSE x1
    IN <<xx, yy>>

LinePoint(x1, y1, x2, y2, i) ==
    LET xdiff == Max(x1, x2) - Min(x1, x2)
        ydiff == Max(y1, y2) - Min(y1, y2)
        xdir == IF x1 <= x2 THEN 1 ELSE UNeg1
        ydir == IF y1 <= y2 THEN 1 ELSE UNeg1
        r == Max(xdiff, ydiff)
        yy == IF ydiff # 0 THEN UAdd(y1, UMul(UMul(i, ydiff) \div r, ydir)) ELSE y1
        xx == IF xdiff # 0 THEN UAdd(x1, UMul(UMul(i, xdiff) \div r, xdir)) ELSE x1
    IN <<xx, yy>>

\* a division by r = 0 is evaluated (Rust panics on it)
LineVecDivZero(x1, y1, x2, y2) ==
    LET xdiff == Max(x1, x2) - Min(x1, x2)
        ydiff == Max(y1, y2) - Min(y1, y2)
        r == Max(xdiff, ydiff)
    IN \E i \in 0..r : (ydiff # 0 /\ r = 0) \/ (xdiff # 0 /\ r = 0)

\* the loop stops one short: range(0, r)
LineVecOfMut(x1, y1, x2, y2) ==
    LET xdiff == Max(x1, x2) - Min(x1, x2)
        ydiff == Max(y1, y2) - Min(y1, y2)
        r == Max(xdiff, ydiff)
    IN [i \in 1..r |-> LinePoint(x1, y1, x2, y2, i - 1)]

LineVecOf(x1, y1, x2, y2) ==
    LET xdiff == Max(x1, x2) - Min(x1, x2)
        ydiff == Max(y1, y2) - Min(y1, y2)
        r == Max(xdiff, ydiff)
    IN [i \in 1..(r + 1) |-> LinePoint(x1, y1, x2, y2, i - 1)]

RECURSIVE SetAll(_, _)
SetAll(c, pts) ==
    IF Len(pts) = 0 THEN c
    ELSE SetAll(SetOr(c, pts[1][1], pts[1][2]), Tail(pts))

LineOf(c, x1, y1, x2, y2) == SetAll(c, LineVecOf(x1, y1, x2, y2))

----------------------------------------------------------------------------
(* Turtle: f32 helpers *)

\* the cast alone, which truncates toward zero
RoundFMut(v) == IF v >= 0 THEN v \div Scale ELSE -((-v) \div Scale)

\* f32::round, half away from zero, then `as int`
RoundF(v) ==
    IF v >= 0 THEN (2 * v + Scale) \div (2 * Scale)
    ELSE -((2 * (-v) + Scale) \div (2 * Scale))

\* cmp::max(0, v.round() as int) as uint
Clamp0(v) == Max(0, RoundF(v))

\* rotation.to_radians().cos() and .sin(), for multiples of 90 degrees, to the
\* nearest 1/Scale (f32 gives |cos 90| < 1e-7, not 0)
CosDeg(d) == LET m == d % 360 IN IF m = 0 THEN 1 ELSE IF m = 180 THEN -1 ELSE 0
SinDeg(d) == LET m == d % 360 IN IF m = 90 THEN 1 ELSE IF m = 270 THEN -1 ELSE 0

\* the line drawn whatever the brush
MoveCharsMut(c, b, x0, y0, tx, ty) ==
    LineOf(c, Clamp0(x0), Clamp0(y0), Clamp0(tx), Clamp0(ty))

\* the cells after move(tx, ty) from (x0, y0) with brush b
MoveChars(c, b, x0, y0, tx, ty) ==
    IF b THEN LineOf(c, Clamp0(x0), Clamp0(y0), Clamp0(tx), Clamp0(ty)) ELSE c

ForwardX(x0, rot, dist) == x0 + CosDeg(rot) * dist
ForwardY(y0, rot, dist) == y0 + SinDeg(rot) * dist

----------------------------------------------------------------------------
(* One object and the calls made on it *)

\* what a call returns: a value, or a panic
Value(v) == [panic |-> FALSE, val |-> v]
Void == Value(<<>>)
Panic == [panic |-> TRUE, val |-> <<>>]
Call(op, args) == [op |-> op, args |-> args]

CanvasNew(w, h) ==
    /\ obj = "Canvas"
    /\ made = Call("Canvas::new", <<w, h>>)
    /\ chars = NoCells
    /\ width = w \div 2
    /\ height = h \div 4
    /\ x = 0 /\ y = 0 /\ brush = FALSE /\ rotation = 0
    /\ last = made
    /\ ret = Void
    /\ nops = 0

TurtleNew(x0, y0) ==
    /\ obj = "Turtle"
    /\ made = Call("Turtle::new", <<x0, y0>>)
    /\ chars = NoCells
    /\ width = 0 \div 2
    /\ height = 0 \div 4
    /\ x = x0 /\ y = y0 /\ brush = TRUE /\ rotation = 0
    /\ last = made
    /\ ret = Void
    /\ nops = 0

Init ==
    \/ \E a \in NewArgs : CanvasNew(a[1], a[2])
    \/ \E a \in StartArgs : TurtleNew(a[1], a[2])

Step(op, args, r) ==
    /\ nops < MaxOps
    /\ nops' = nops + 1
    /\ last' = Call(op, args)
    /\ ret' = r
    /\ UNCHANGED <<obj, made>>

OnCanvas == obj = "Canvas"
OnTurtle == obj = "Turtle"

Clear ==
    /\ OnCanvas
    /\ Step("clear", <<>>, Void)
    /\ chars' = NoCells
    /\ UNCHANGED <<width, height, turtle>>

Set(px, py) ==
    /\ OnCanvas
    /\ Step("set", <<px, py>>, Void)
    /\ chars' = SetOr(chars, px, py)
    /\ UNCHANGED <<width, height, turtle>>

Unset(px, py) ==
    /\ OnCanvas
    /\ Step("unset", <<px, py>>, Void)
    /\ chars' = UnsetAnd(chars, px, py)
    /\ UNCHANGED <<width, height, turtle>>

Toggle(px, py) ==
    /\ OnCanvas
    /\ Step("toggle", <<px, py>>, Void)
    /\ chars' = ToggleXor(chars, px, py)
    /\ UNCHANGED <<width, height, turtle>>

Get(px, py) ==
    /\ OnCanvas
    /\ Step("get", <<px, py>>, Value(GetBit(chars, px, py)))
    /\ UNCHANGED <<canvas, turtle>>

RowsRet ==
    IF RowsPanics(chars, width, height) THEN Panic ELSE Value(RowsOf(chars, width, height))
FrameRet ==
    IF RowsPanics(chars, width, height) THEN Panic ELSE Value(FrameOf(chars, width, height))

Rows ==
    /\ OnCanvas
    /\ Step("rows", <<>>, RowsRet)
    /\ UNCHANGED <<canvas, turtle>>

Frame ==
    /\ OnCanvas
    /\ Step("frame", <<>>, FrameRet)
    /\ UNCHANGED <<canvas, turtle>>

LineVecRet(x1, y1, x2, y2) ==
    IF LineVecDivZero(x1, y1, x2, y2) THEN Panic ELSE Value(LineVecOf(x1, y1, x2, y2))

LineVec(x1, y1, x2, y2) ==
    /\ OnCanvas
    /\ Step("line_vec", <<x1, y1, x2, y2>>, LineVecRet(x1, y1, x2, y2))
    /\ UNCHANGED <<canvas, turtle>>

Line(x1, y1, x2, y2) ==
    /\ OnCanvas
    /\ Step("line", <<x1, y1, x2, y2>>, Void)
    /\ chars' = LineOf(chars, x1, y1, x2, y2)
    /\ UNCHANGED <<width, height, turtle>>

TurtleWidth(w) ==
    /\ OnTurtle
    /\ Step("Turtle::width", <<w>>, Void)
    /\ width' = w
    /\ UNCHANGED <<chars, height, turtle>>

TurtleHeight(h) ==
    /\ OnTurtle
    /\ Step("Turtle::height", <<h>>, Void)
    /\ height' = h
    /\ UNCHANGED <<chars, width, turtle>>

Up ==
    /\ OnTurtle
    /\ Step("Turtle::up", <<>>, Void)
    /\ brush' = FALSE
    /\ UNCHANGED <<canvas, x, y, rotation>>

Down ==
    /\ OnTurtle
    /\ Step("Turtle::down", <<>>, Void)
    /\ brush' = TRUE
    /\ UNCHANGED <<canvas, x, y, rotation>>

TurtleToggle ==
    /\ OnTurtle
    /\ Step("Turtle::toggle", <<>>, Void)
    /\ brush' = ~brush
    /\ UNCHANGED <<canvas, x, y, rotation>>

\* the body of move, shared by move, forward and back
MoveTo(tx, ty) ==
    /\ chars' = MoveChars(chars, brush, x, y, tx, ty)
    /\ x' = tx
    /\ y' = ty
    /\ UNCHANGED <<width, height, brush, rotation>>

Move(tx, ty) ==
    /\ OnTurtle
    /\ Step("Turtle::move", <<tx, ty>>, Void)
    /\ MoveTo(tx, ty)

Forward(dist) ==
    /\ OnTurtle
    /\ Step("Turtle::forward", <<dist>>, Void)
    /\ MoveTo(ForwardX(x, rotation, dist), ForwardY(y, rotation, dist))

Back(dist) ==
    /\ OnTurtle
    /\ Step("Turtle::back", <<dist>>, Void)
    /\ MoveTo(ForwardX(x, rotation, -dist), ForwardY(y, rotation, -dist))

Right(angle) ==
    /\ OnTurtle
    /\ Step("Turtle::right", <<angle>>, Void)
    /\ rotation' = rotation + angle
    /\ UNCHANGED <<canvas, x, y, brush>>

Left(angle) ==
    /\ OnTurtle
    /\ Step("Turtle::left", <<angle>>, Void)
    /\ rotation' = rotation - angle
    /\ UNCHANGED <<canvas, x, y, brush>>

TurtleFrame ==
    /\ OnTurtle
    /\ Step("Turtle::frame", <<>>, FrameRet)
    /\ UNCHANGED <<canvas, turtle>>

Next ==
    \/ Clear
    \/ \E px \in Xs, py \in Ys : Set(px, py)
    \/ \E px \in Xs, py \in Ys : Unset(px, py)
    \/ \E px \in Xs, py \in Ys : Toggle(px, py)
    \/ \E px \in Xs, py \in Ys : Get(px, py)
    \/ Rows
    \/ Frame
    \/ \E x1 \in LineXs, y1 \in LineYs, x2 \in LineXs, y2 \in LineYs : LineVec(x1, y1, x2, y2)
    \/ \E x1 \in LineXs, y1 \in LineYs, x2 \in LineXs, y2 \in LineYs : Line(x1, y1, x2, y2)
    \/ \E w \in Dims : TurtleWidth(w)
    \/ \E h \in Dims : TurtleHeight(h)
    \/ Up
    \/ Down
    \/ TurtleToggle
    \/ \E tx \in MoveXs, ty \in MoveYs : Move(tx, ty)
    \/ \E dist \in Dists : Forward(dist)
    \/ \E dist \in Dists : Back(dist)
    \/ \E angle \in Angles : Right(angle)
    \/ \E angle \in Angles : Left(angle)
    \/ TurtleFrame

Spec == Init /\ [][Next]_vars

\* line_vec alone, on every pair of endpoints in 0..LineMax by 0..LineMax
InitLine == CanvasNew(1, 1)

NextLine ==
    \E x1 \in 0..LineMax, y1 \in 0..LineMax, x2 \in 0..LineMax, y2 \in 0..LineMax :
        LineVec(x1, y1, x2, y2)

SpecLine == InitLine /\ [][NextLine]_vars

----------------------------------------------------------------------------
(* Properties *)

\* the dot of pixel (px, py) is set in its own cell (px / 2, py / 4)
PixelOn(c, px, py) ==
    LET key == <<px \div 2, py \div 4>>
    IN key \in DOMAIN c /\ BitAnd(c[key], Dot(px, py)) # 0

\* the pixels of the cells c stores
PixelsOf(c) == {<<2 * k[1] + a, 4 * k[2] + b>> : k \in DOMAIN c, a \in 0..1, b \in 0..3}

Range(f) == {f[i] : i \in DOMAIN f}
Abs(a) == IF a >= 0 THEN a ELSE -a

\* C1: after set(x,y), get(x,y) returns true.
C1_SetThenGet ==
    (OnCanvas /\ last.op = "set") => GetBit(chars, last.args[1], last.args[2])

\* C2: set(x,y), then unset(x,y), then get(x,y) returns false, in every state.
C2_SetUnsetThenGet ==
    [][(OnCanvas /\ last.op = "set" /\ last'.op = "unset" /\ last'.args = last.args)
        => ~GetBit(chars', last'.args[1], last'.args[2])]_vars

\* a Canvas made by new(2,4) on which exactly one call, c, has been made
FirstCallOn24(c) ==
    OnCanvas /\ made.args = <<2, 4>> /\ nops = 1 /\ last = c

\* C3 as stated: new(2,4), set(0,0): frame() is the one character U+2801.
C3_FrameIsOneChar ==
    FirstCallOn24(Call("set", <<0, 0>>))
        => FrameOf(chars, width, height) = <<BRAILLE + 1>>

\* C3 amended: new(2,4), set(0,0): frame() is two rows of two characters,
\* U+2801 and a space, a line feed, then two spaces.
C3_FrameIsTwoByTwo ==
    FirstCallOn24(Call("set", <<0, 0>>))
        => FrameOf(chars, width, height) = <<BRAILLE + 1, SPACE, LF, SPACE, SPACE>>

C3_Witness ==
    /\ FirstCallOn24(Call("set", <<0, 0>>))
    /\ width = 1 /\ height = 1
    /\ Len(FrameOf(chars, width, height)) = 5

\* C4 as stated: new(2,4), line(0,0,1,3): pixels (0,0..3) set, none of pixel
\* column 1, cell (0,0) has mask 0x47 and is rendered as U+2847.
C4_LineIsColumn0 ==
    FirstCallOn24(Call("line", <<0, 0, 1, 3>>))
        => /\ \A py \in 0..3 : PixelOn(chars, 0, py) /\ ~PixelOn(chars, 1, py)
           /\ chars[<<0, 0>>] = 71
           /\ FrameOf(chars, width, height)[1] = BRAILLE + 71

\* C4 amended: new(2,4), line(0,0,1,3): exactly the pixels (0,0), (0,1), (0,2)
\* and (1,3) are set, cell (0,0) has mask 0x87 and is rendered as U+2887.
C4_LineEndsInColumn1 ==
    FirstCallOn24(Call("line", <<0, 0, 1, 3>>))
        => /\ DOMAIN chars = {<<0, 0>>}
           /\ \A p \in PixelsOf(chars) :
                PixelOn(chars, p[1], p[2])
                    <=> p \in {<<0, 0>>, <<0, 1>>, <<0, 2>>, <<1, 3>>}
           /\ chars[<<0, 0>>] = 135
           /\ FrameOf(chars, width, height)[1] = BRAILLE + 135

C4_Witness ==
    /\ FirstCallOn24(Call("line", <<0, 0, 1, 3>>))
    /\ PixelOn(chars, 1, 3)
    /\ ~PixelOn(chars, 0, 3)

\* trunc(i * d / r), the term being absent when r = 0
Term(i, d, r) == IF r = 0 THEN 0 ELSE (i * d) \div r

\* C5: line_vec returns r + 1 = max(dx, dy) + 1 points, the i-th being
\* (x1 + trunc(i*dx/r)*xdir, y1 + trunc(i*dy/r)*ydir); it never divides by zero;
\* every coordinate lies between the endpoints; line_vec(x,y,x,y) = [(x,y)].
C5_LineVec ==
    last.op = "line_vec" =>
        LET x1 == last.args[1]
            y1 == last.args[2]
            x2 == last.args[3]
            y2 == last.args[4]
            dx == Abs(x1 - x2)
            dy == Abs(y1 - y2)
            xdir == IF x2 >= x1 THEN 1 ELSE -1
            ydir == IF y2 >= y1 THEN 1 ELSE -1
            r == Max(dx, dy)
        IN /\ ~ret.panic
           /\ Len(ret.val) = r + 1
           /\ \A i \in 0..r :
                /\ ret.val[i + 1] = <<x1 + Term(i, dx, r) * xdir, y1 + Term(i, dy, r) * ydir>>
                /\ Min(x1, x2) <= ret.val[i + 1][1] /\ ret.val[i + 1][1] <= Max(x1, x2)
                /\ Min(y1, y2) <= ret.val[i + 1][2] /\ ret.val[i + 1][2] <= Max(y1, y2)
           /\ (x1 = x2 /\ y1 = y2) => ret.val = << <<x1, y1>> >>

C5_Witness ==
    /\ last.op = "line_vec"
    /\ last.args = <<4, 1, 0, 3>>
    /\ ~ret.panic
    /\ ret.val = << <<4, 1>>, <<3, 1>>, <<2, 2>>, <<1, 2>>, <<0, 3>> >>

\* the grid the claim describes
GridRows == Max(height, MaxOr0({k[2] : k \in DOMAIN chars})) + 1
GridCols == Max(width, MaxOr0({k[1] : k \in DOMAIN chars})) + 1
GridChar(col, row) ==
    IF <<col, row>> \notin DOMAIN chars \/ chars[<<col, row>>] = 0 THEN SPACE
    ELSE BRAILLE + chars[<<col, row>>]

\* C6: rows() is max(height, max stored row) + 1 strings of max(width, max stored
\* column) + 1 characters, a space for an absent or empty cell and 0x2800 + mask
\* otherwise; frame() is the rows joined by single line feeds, none trailing.
C6_RowsAndFrame ==
    LET rs == RowsOf(chars, width, height)
        fr == FrameOf(chars, width, height)
    IN /\ Len(rs) = GridRows
       /\ \A row \in 1..GridRows :
            /\ Len(rs[row]) = GridCols
            /\ \A col \in 1..GridCols : rs[row][col] = GridChar(col - 1, row - 1)
       /\ Len(fr) = GridRows * GridCols + (GridRows - 1)
       /\ \A k \in 1..Len(fr) :
            fr[k] = IF k % (GridCols + 1) = 0 THEN LF
                    ELSE GridChar((k - 1) % (GridCols + 1), (k - 1) \div (GridCols + 1))
       /\ last.op = "rows" => ret = Value(rs)
       /\ last.op \in {"frame", "Turtle::frame"} => ret = Value(fr)

C6_Witness ==
    /\ last.op = "frame"
    /\ width = 0 /\ height = 0
    /\ DOMAIN chars = {<<1, 1>>}
    /\ ret.val = <<SPACE, SPACE, LF, SPACE, BRAILLE + 1>>

\* C7: Turtle width(w) declares w / 2 cells and height(h) declares h / 4 cells.
C7_ConfigInPixels ==
    /\ (OnTurtle /\ last.op = "Turtle::width") => width = last.args[1] \div 2
    /\ (OnTurtle /\ last.op = "Turtle::height") => height = last.args[1] \div 4

PenMoves == {"Turtle::move", "Turtle::forward", "Turtle::back"}
PenControls == {"Turtle::up", "Turtle::down", "Turtle::toggle",
                "Turtle::right", "Turtle::left"}

\* where the call just made sends the Turtle
TargetOf(c) ==
    IF c.op = "Turtle::move" THEN <<c.args[1], c.args[2]>>
    ELSE IF c.op = "Turtle::forward"
        THEN <<x + CosDeg(rotation) * c.args[1], y + SinDeg(rotation) * c.args[1]>>
    ELSE <<x - CosDeg(rotation) * c.args[1], y - SinDeg(rotation) * c.args[1]>>

\* C8: with the pen up, move, forward and back leave the Canvas (cells, declared
\* width and height, frame) unchanged and put the Turtle at the target;
\* up, down, toggle, right and left never change the Canvas or the position.
C8_PenUpLeavesCanvas ==
    [][OnTurtle =>
        /\ (~brush /\ last'.op \in PenMoves) =>
              /\ chars' = chars /\ width' = width /\ height' = height
              /\ FrameOf(chars', width', height') = FrameOf(chars, width, height)
              /\ <<x', y'>> = TargetOf(last')
        /\ last'.op \in PenControls =>
              /\ chars' = chars /\ width' = width /\ height' = height
              /\ x' = x /\ y' = y]_vars

C8_Witness ==
    /\ OnTurtle /\ made.args = <<0, 0>>
    /\ ~brush
    /\ last = Call("Turtle::forward", <<4 * Scale>>)
    /\ x = 5 * Scale /\ y = 0
    /\ PixelsOf(chars) # {}
    /\ ~PixelOn(chars, 2, 0)

\* the integer nearest to v / Scale, the farther from zero of two
Nearest(v) ==
    LET near == ((v \div Scale) - 1)..((v \div Scale) + 1)
    IN CHOOSE n \in near :
        \A m \in near :
            \/ Abs(Scale * n - v) < Abs(Scale * m - v)
            \/ Abs(Scale * n - v) = Abs(Scale * m - v) /\ Abs(n) >= Abs(m)

\* the pixels move(tx, ty) draws, the pen being down at (x, y)
DrawnBy(tx, ty) ==
    Range(LineVecOf(Max(0, Nearest(x)), Max(0, Nearest(y)),
                    Max(0, Nearest(tx)), Max(0, Nearest(ty))))

\* C9: with the pen down, move(tx,ty) sets exactly the pixels of line_vec between
\* the rounded-then-clamped old and new positions; in either pen state the
\* position becomes exactly (tx,ty); a new Turtle at (0,0) after forward(4) is at
\* (4,0) with pixels (0,0)..(4,0) set.
C9_MoveDraws ==
    [][/\ (OnTurtle /\ last'.op = "Turtle::move") =>
            /\ x' = last'.args[1] /\ y' = last'.args[2]
            /\ brush =>
                 LET drawn == DrawnBy(x', y')
                 IN \A p \in PixelsOf(chars') \cup PixelsOf(chars) \cup drawn :
                        PixelOn(chars', p[1], p[2])
                            <=> (PixelOn(chars, p[1], p[2]) \/ p \in drawn)
       /\ (OnTurtle /\ made.args = <<0, 0>> /\ nops = 0
                /\ last' = Call("Turtle::forward", <<4 * Scale>>)) =>
            /\ x' = 4 * Scale /\ y' = 0
            /\ \A p \in PixelsOf(chars') :
                    PixelOn(chars', p[1], p[2]) <=> (p[2] = 0 /\ p[1] \in 0..4)
            /\ \A px \in 0..4 : PixelOn(chars', px, 0)]_vars

C9_Witness ==
    /\ OnTurtle /\ made.args = <<0, 0>>
    /\ brush
    /\ last = Call("Turtle::move", <<-1, 3>>)
    /\ x = -1 /\ y = 3
    /\ PixelOn(chars, 0, 2)

\* C10: every stored mask is in 0..255, so rows() never fails to convert
\* 0x2800 + mask, and every cell rows()/frame() emit is a space or U+2801..U+28FF.
C10_MasksAreBytes ==
    /\ \A k \in DOMAIN chars : chars[k] \in 0..255
    /\ ~RowsPanics(chars, width, height)
    /\ \A row \in Range(RowsOf(chars, width, height)) :
         \A ch \in Range(row) : ch = SPACE \/ ch \in 10241..10495
    /\ \A ch \in Range(FrameOf(chars, width, height)) :
         ch = SPACE \/ ch = LF \/ ch \in 10241..10495
    /\ last.op \in {"rows", "frame", "Turtle::frame"} => ~ret.panic

C10_Witness ==
    /\ last.op = "rows"
    /\ ~ret.panic
    /\ \E k \in DOMAIN chars : chars[k] = 0
    /\ \E k \in DOMAIN chars : chars[k] = 128 + 64

====
